---- MODULE Spec2Model ----
(***************************************************************************)
(* Model of providers/common/ciphers/aes.c: the AES-ECB streaming engine   *)
(* (init / update / final / params / dupctx) of the default provider.      *)
(*                                                                         *)
(* A context is a record with the fields of PROV_AES_KEY that aes.c reads  *)
(* or writes: enc, pad, keylen, buf (AES_BLOCK_SIZE bytes of storage),     *)
(* bufsz, ks (the key schedule, named by the key it was built from, 0 for  *)
(* the zeroed schedule) and iv.                                            *)
(* Every C function is a pure operator from a context and its arguments to *)
(* a result record; the actions apply these operators to the variables.    *)
(* Between calls the state keeps the pending bytes buf[0..bufsz) and shows *)
(* the storage behind them as zero (Pending): aes.c reads buf only as a    *)
(* full block, after bufsz reached the block size or padblock filled it.   *)
(*                                                                         *)
(* Four specifications share the variables:                                *)
(*   Spec      any sequence of the seven calls on one context, with        *)
(*             failing key setup, cipher invocations and accessors;        *)
(*   SpecReuse the calls of a stream on a context used again after         *)
(*             aes_final, in step with a freshly created context;          *)
(*   SpecCall  one aes_update or aes_final call, recorded in full, from    *)
(*             every pending count, direction and padding flag;            *)
(*   SpecRT    encryption followed by decryption of the output, under      *)
(*             every split of both inputs into aes_update calls.           *)
(***************************************************************************)
EXTENDS Integers, Sequences, FiniteSets, TLC

(***************************************************************************)
(* Program constants and model bounds                                      *)
(***************************************************************************)
AES_BLOCK_SIZE == 16

\* key length set by aes_256_ecb_newctx: 256 / 8
KeyLen256 == 32

\* longest input of one probed aes_update call (SpecCall) and of one call
\* of the round trip (SpecRT)
MaxInl == 33

\* longest input of one aes_update call of Spec
MaxChunk == 24

\* bytes of a tape the caller of Spec supplies before it starts over
TapeLen == 34

\* longest plaintext of the round-trip specification
MaxPlain == 33

Keys == {1}

\* the addresses OPENSSL_malloc can return
Addrs == 1..2

\* the byte shift of the block transform under key schedule ks
KeyShift(ks) == 16 + 32 * ks

\* a NULL key / iv argument
NULL == 0

\* *outl was not stored by the call
NoOutl == -1

Min(a, b) == IF a < b THEN a ELSE b

Take(s, n) == SubSeq(s, 1, n)

Drop(s, n) == SubSeq(s, n + 1, Len(s))

ZeroBlock == [i \in 1..AES_BLOCK_SIZE |-> 0]

\* memcpy(buf + at, bytes, Len(bytes)) into the block-sized array buf
MemcpyAt(buf, at, bytes) ==
  [i \in 1..AES_BLOCK_SIZE |->
     IF i > at /\ i <= at + Len(bytes) THEN bytes[i - at] ELSE buf[i]]

(***************************************************************************)
(* The external primitives: ctx->ciph->cipher and ctx->ciph->init.         *)
(* The block transform is a keyed permutation of blocks that is not the    *)
(* identity: it reverses the block and shifts every byte by the key.       *)
(***************************************************************************)
EncBlock(ks, b) ==
  [i \in 1..AES_BLOCK_SIZE |-> (b[AES_BLOCK_SIZE + 1 - i] + KeyShift(ks)) % 256]

DecBlock(ks, b) ==
  [i \in 1..AES_BLOCK_SIZE |-> (b[AES_BLOCK_SIZE + 1 - i] + 256 - KeyShift(ks)) % 256]

\* the whole blocks of data, transformed one by one (ECB); a trailing partial
\* block is not touched and not written
RECURSIVE CipherBlocks(_, _, _)
CipherBlocks(ks, enc, data) ==
  IF Len(data) < AES_BLOCK_SIZE THEN <<>>
  ELSE (IF enc = 1 THEN EncBlock(ks, Take(data, AES_BLOCK_SIZE))
                   ELSE DecBlock(ks, Take(data, AES_BLOCK_SIZE)))
       \o CipherBlocks(ks, enc, Drop(data, AES_BLOCK_SIZE))

\* ctx->ciph->cipher(ctx, out, in, len): the bytes written to out
cipher(c, data) == CipherBlocks(c.ks, c.enc, data)

\* ctx->ciph->init(ctx, key, ctx->keylen): ok is the primitive's verdict
ciph_init(c, key, ok) ==
  [ctx |-> IF ok THEN [c EXCEPT !.ks = key] ELSE c,
   ret |-> IF ok THEN 1 ELSE 0]

(***************************************************************************)
(* Block accumulator and padding codec (fillblock, trailingdata, padblock, *)
(* unpadblock), declared in ciphers_locl.h                                 *)
(***************************************************************************)
\* blocksize-aligned part of n: n & ~(blocksize - 1)
BlockMask(n) == n - (n % AES_BLOCK_SIZE)

\* tops the buffer up from the front of the input and returns the number of
\* bytes of whole blocks left in the input
fillblock(buf, buflen, in) ==
  LET bufremain == Min(AES_BLOCK_SIZE - buflen, Len(in))
  IN  [buf |-> MemcpyAt(buf, buflen, Take(in, bufremain)),
       buflen |-> buflen + bufremain,
       in |-> Drop(in, bufremain),
       nextblocks |-> BlockMask(Len(in) - bufremain)]

\* appends what is left of the input to the buffer; fails when it does not fit
trailingdata(buf, buflen, in) ==
  IF Len(in) = 0 THEN [ok |-> TRUE, buf |-> buf, buflen |-> buflen, in |-> in]
  ELSE IF buflen + Len(in) > AES_BLOCK_SIZE
       THEN [ok |-> FALSE, buf |-> buf, buflen |-> buflen, in |-> in]
  ELSE [ok |-> TRUE, buf |-> MemcpyAt(buf, buflen, in),
        buflen |-> buflen + Len(in), in |-> <<>>]

\* fills buf[buflen..blocksize) with the pad length (as an unsigned char)
padblock(buf, buflen) ==
  [i \in 1..AES_BLOCK_SIZE |->
     IF i > buflen THEN (AES_BLOCK_SIZE - buflen) % 256 ELSE buf[i]]

\* validates the padding of a full block; on success the new buflen
unpadblock(buf, buflen) ==
  LET pad == buf[AES_BLOCK_SIZE]
  IN  IF buflen # AES_BLOCK_SIZE THEN [ok |-> FALSE, buflen |-> buflen]
      ELSE IF pad = 0 \/ pad > AES_BLOCK_SIZE THEN [ok |-> FALSE, buflen |-> buflen]
      ELSE IF \E i \in (AES_BLOCK_SIZE - pad + 1)..AES_BLOCK_SIZE : buf[i] # pad
           THEN [ok |-> FALSE, buflen |-> buflen]
      ELSE [ok |-> TRUE, buflen |-> AES_BLOCK_SIZE - pad]

(***************************************************************************)
(* aes.c                                                                   *)
(***************************************************************************)
\* OPENSSL_zalloc'ed context of aes_256_ecb_newctx
aes_256_ecb_newctx ==
  [enc |-> 0, pad |-> 1, keylen |-> KeyLen256, buf |-> ZeroBlock, bufsz |-> 0,
   ks |-> 0, iv |-> 0]

PROV_AES_KEY_generic_init(c, iv, enc) ==
  [c EXCEPT !.iv = IF iv # NULL THEN iv ELSE @, !.enc = enc]

aes_einit(c, key, iv, ok) ==
  LET c1 == PROV_AES_KEY_generic_init(c, iv, 1)
  IN  IF key # NULL THEN ciph_init(c1, key, ok) ELSE [ctx |-> c1, ret |-> 1]

aes_dinit(c, key, iv, ok) ==
  LET c1 == PROV_AES_KEY_generic_init(c, iv, 0)
  IN  IF key # NULL THEN ciph_init(c1, key, ok) ELSE [ctx |-> c1, ret |-> 1]

\* faulty variant of FlushHeld: a full buffer is never flushed
FlushHeldNever(c, inl) == FALSE

\* faulty variant of FlushHeld: a full buffer is always flushed
FlushHeldWhenFull(c, inl) == c.bufsz = AES_BLOCK_SIZE

\* faulty variant of FlushHeld: the buffer is flushed without being full
FlushHeldNoSize(c, inl) == c.enc = 1 \/ inl > 0 \/ c.pad = 0

\* the condition of aes_update that flushes a full buffer: inl is the input
\* left after fillblock
FlushHeld(c, inl) ==
  c.bufsz = AES_BLOCK_SIZE /\ (c.enc = 1 \/ inl > 0 \/ c.pad = 0)

\* faulty variant of HoldLast: the last input block is never kept back
HoldLastNever(c, nextblocks, inl) == FALSE

\* faulty variant of HoldLast: the last block is kept back when encrypting too
HoldLastAnyDir(c, nextblocks, inl) == c.pad = 1 /\ nextblocks = inl

\* faulty variant of HoldLast: the last block is kept back without padding too
HoldLastAnyPad(c, nextblocks, inl) == c.enc = 0 /\ nextblocks = inl

\* the condition of aes_update that keeps the last input block back
HoldLast(c, nextblocks, inl) ==
  c.enc = 0 /\ c.pad = 1 /\ nextblocks = inl

\* one invocation of the cipher primitive, as recorded in a call's result
Call(src, data, len) == [src |-> src, len |-> len, data |-> data]

\* the result of a call: the context it leaves, its return value, the bytes
\* written to out, the value stored in *outl, the cipher invocations made
\* and the input bytes not consumed
Result(c, ret, out, outl, calls, rem) ==
  [ctx |-> c, ret |-> ret, out |-> out, outl |-> outl, calls |-> calls,
   rem |-> rem]

\* faulty variant of aes_update: the input is appended to the pending bytes
\* without regard to the block size
aes_updateAppend(c, in, cfail) ==
  Result([c EXCEPT !.bufsz = c.bufsz + Len(in)], 1, <<>>, 0, <<>>, 0)

\* cfail: which cipher invocation of the call fails (0: none)
aes_update(c, in, cfail) ==
  LET f == fillblock(c.buf, c.bufsz, in)
      c1 == [c EXCEPT !.buf = f.buf, !.bufsz = f.buflen]
      inl1 == Len(f.in)
      flush == FlushHeld(c1, inl1)
      calls1 == IF flush THEN <<Call("buf", c1.buf, AES_BLOCK_SIZE)>> ELSE <<>>
      out1 == IF flush THEN cipher(c1, c1.buf) ELSE <<>>
      c2 == IF flush THEN [c1 EXCEPT !.bufsz = 0] ELSE c1
      direct == f.nextblocks > 0
      hold == direct /\ HoldLast(c2, f.nextblocks, inl1)
      nextblocks == IF hold THEN f.nextblocks - AES_BLOCK_SIZE ELSE f.nextblocks
      calls2 == IF direct
                THEN calls1 \o <<Call("in", Take(f.in, nextblocks), nextblocks)>>
                ELSE calls1
      out2 == IF direct THEN out1 \o cipher(c2, Take(f.in, nextblocks)) ELSE out1
      in2 == IF direct THEN Drop(f.in, nextblocks) ELSE f.in
      t == trailingdata(c2.buf, c2.bufsz, in2)
      c3 == [c2 EXCEPT !.buf = t.buf, !.bufsz = t.buflen]
  IN  IF flush /\ cfail = 1
        THEN Result(c1, 0, <<>>, NoOutl, calls1, inl1)
      ELSE IF hold /\ inl1 < AES_BLOCK_SIZE
        THEN Result(c2, 0, out1, NoOutl, calls1, inl1)
      ELSE IF direct /\ cfail = Len(calls2)
        THEN Result(c2, 0, out1, NoOutl, calls2, inl1)
      ELSE IF ~t.ok
        THEN Result(c2, 0, out2, NoOutl, calls2, Len(in2))
      ELSE Result(c3, IF Len(t.in) = 0 THEN 1 ELSE 0, out2, Len(out2), calls2,
                  Len(t.in))

\* faulty variant of EncFinalReset: the pending count is left as it was
EncFinalKeep(c) == c

\* the stores of aes_final that reset the pending count after the transform
EncFinalReset(c) == [c EXCEPT !.bufsz = 0]

DecFinalReset(c) == [c EXCEPT !.bufsz = 0]

\* faulty variant of DecFraming: no buffer fill is a framing error
DecFramingNever(c) == FALSE

\* faulty variant of DecFraming: only an empty buffer is a framing error
DecFramingEmptyOnly(c) == c.bufsz = 0

\* the framing check of the decrypt path: TRUE when the held bytes are not
\* one full block
DecFraming(c) == c.bufsz # AES_BLOCK_SIZE

\* faulty variant of EncPartial: a partial block is not rejected
EncPartialNever(c) == FALSE

\* the check of the encrypt path without padding that rejects a partial block
EncPartial(c) == c.bufsz # AES_BLOCK_SIZE

\* faulty variant of CheckPad: the padding is never validated
CheckPadNever(c) == FALSE

\* whether the decrypt path validates the padding of the transformed block
CheckPad(c) == c.pad = 1

aes_final(c, cfail) ==
  IF c.enc = 1
  THEN LET c1 == IF c.pad = 1 THEN [c EXCEPT !.buf = padblock(c.buf, c.bufsz)]
                 ELSE c
           call == <<Call("buf", c1.buf, AES_BLOCK_SIZE)>>
       IN  IF c.pad # 1 /\ c.bufsz = 0
             THEN Result(c, 1, <<>>, 0, <<>>, 0)
           ELSE IF c.pad # 1 /\ EncPartial(c)
             THEN Result(c, 0, <<>>, NoOutl, <<>>, 0)
           ELSE IF cfail = 1
             THEN Result(c1, 0, <<>>, NoOutl, call, 0)
           ELSE Result(EncFinalReset(c1), 1, cipher(c1, c1.buf), AES_BLOCK_SIZE,
                       call, 0)
  ELSE LET call == <<Call("buf", c.buf, AES_BLOCK_SIZE)>>
           c1 == [c EXCEPT !.buf = cipher(c, c.buf)]
           u == unpadblock(c1.buf, c1.bufsz)
           c2 == IF CheckPad(c) THEN [c1 EXCEPT !.bufsz = u.buflen] ELSE c1
       IN  IF DecFraming(c)
             THEN IF c.bufsz = 0 /\ c.pad = 0
                    THEN Result(c, 1, <<>>, 0, <<>>, 0)
                    ELSE Result(c, 0, <<>>, NoOutl, <<>>, 0)
           ELSE IF cfail = 1
             THEN Result(c, 0, <<>>, NoOutl, call, 0)
           ELSE IF CheckPad(c) /\ ~u.ok
             THEN Result(c1, 0, <<>>, NoOutl, call, 0)
           ELSE Result(DecFinalReset(c2), 1, Take(c2.buf, c2.bufsz), c2.bufsz,
                       call, 0)

\* *ret = *in
aes_dupctx(c) == c

\* OPENSSL_malloc: an address that holds no live context
OPENSSL_malloc(obj) == CHOOSE a \in Addrs : ~obj[a].live

\* faulty variant of dupctx_store: the context itself is returned as its copy
dupctx_alias(obj, in) == [obj |-> obj, ret |-> in]

\* aes_dupctx on allocated storage: the copy is stored at a new address,
\* which is returned
dupctx_store(obj, in) ==
  LET ret == OPENSSL_malloc(obj)
  IN  [obj |-> [obj EXCEPT ![ret] = [live |-> TRUE, c |-> aes_dupctx(obj[in].c)]],
       ret |-> ret]

\* OPENSSL_clear_free(ctx, sizeof(*ctx)): the storage is zeroed and released
aes_freectx(c) ==
  [live |-> FALSE,
   c |-> [enc |-> 0, pad |-> 0, keylen |-> 0, buf |-> ZeroBlock, bufsz |-> 0,
          ks |-> 0, iv |-> 0]]

\* params: the padding parameter of the array, "absent" when it holds none;
\* setok: whether OSSL_PARAM_set_uint can store into it
aes_get_params(c, param, setok) ==
  IF param # "absent" /\ ~setok
  THEN [ctx |-> c, ret |-> 0, got |-> NoOutl]
  ELSE [ctx |-> c, ret |-> 1, got |-> IF param # "absent" THEN c.pad ELSE NoOutl]

\* faulty variant of aes_set_params: the value read is stored as it is
aes_set_paramsRaw(c, param) ==
  IF param.kind = "absent" THEN [ctx |-> c, ret |-> 1]
  ELSE IF param.kind = "unreadable" THEN [ctx |-> c, ret |-> 0]
  ELSE [ctx |-> [c EXCEPT !.pad = param.val], ret |-> 1]

\* param: the padding parameter of the array: kind "absent" when it holds
\* none, "unreadable" when OSSL_PARAM_get_int fails on it, else "int" with val
aes_set_params(c, param) ==
  IF param.kind = "absent" THEN [ctx |-> c, ret |-> 1]
  ELSE IF param.kind = "unreadable" THEN [ctx |-> c, ret |-> 0]
  ELSE [ctx |-> [c EXCEPT !.pad = IF param.val # 0 THEN 1 ELSE 0], ret |-> 1]

(***************************************************************************)
(* The caller's input: every aes_update takes the next bytes of a tape;    *)
(* after a successful aes_final, and after a failed aes_update, the caller *)
(* starts over at the start of a tape.  A tape is a plaintext encrypted    *)
(* block by block under key 1, so that the decrypt path meets the padding  *)
(* cases: tape 1 starts with a valid pad of 5, then pad bytes that         *)
(* disagree, then data; tape 2 with a full pad block, then a pad value 0,  *)
(* then a valid pad of 1; tape 3 with a pad value 0; tape 4 with pad bytes *)
(* that disagree; tape 5 with a pad value above the block size.            *)
(* Decrypting under the zeroed key schedule gives other pad values again.  *)
(***************************************************************************)
Tapes == 1..5

\* length of a tape: a full buffer and the longest input of one call
ProbeLen == 50

TapePlainByte(t, i) ==
  LET j == ((i - 1) % AES_BLOCK_SIZE) + 1
      blk == (i - 1) \div AES_BLOCK_SIZE
  IN  CASE t = 1 /\ blk = 0 -> IF j >= 12 THEN 5 ELSE 64 + j
        [] t = 1 /\ blk = 1 -> IF j >= 14 THEN 4 ELSE IF j = 13 THEN 9 ELSE 96 + j
        [] t = 2 /\ blk = 0 -> 16
        [] t = 2 /\ blk = 1 -> 0
        [] t = 2 /\ blk = 2 -> IF j = AES_BLOCK_SIZE THEN 1 ELSE 128 + j
        [] t = 3 /\ blk = 0 -> IF j = AES_BLOCK_SIZE THEN 0 ELSE 32 + j
        [] t = 4 /\ blk = 0 -> IF j >= 15 THEN 3 ELSE 48 + j
        [] t = 5 /\ blk = 0 -> IF j >= 12 THEN 17 ELSE 80 + j
        [] OTHER -> 160 + j

Tape ==
  [t \in Tapes |->
     LET p == [i \in 1..ProbeLen |-> TapePlainByte(t, i)]
     IN  CipherBlocks(1, 1, p) \o Drop(p, BlockMask(ProbeLen))]

\* the plaintexts of the round trip: data, bytes that look like padding
Pats == 1..3

PlainByte(t, i) ==
  CASE t = 1 -> (i * 7 + 3) % 251
    [] t = 2 -> 1
    [] OTHER -> IF i % AES_BLOCK_SIZE = 0 THEN 16 ELSE i % AES_BLOCK_SIZE

Plain == [t \in Pats |-> [i \in 1..MaxPlain |-> PlainByte(t, i)]]

(***************************************************************************)
(* State                                                                   *)
(***************************************************************************)
VARIABLES
  ctx,    \* the context the caller operates on
  tape,   \* the caller's input tape
  pos,    \* bytes of the tape supplied so far
  last,   \* the last call: operation, return value, *outl
  probe,  \* SpecCall: the probed call in full (context before, input, output)
  strm,   \* the stream in progress, while it is a plain one
  reuse,  \* SpecReuse: a freshly created context run in step with a reused one
  rt,     \* SpecRT: plaintext fed, ciphertext, decrypted text
  dup,    \* SpecDup: the allocated contexts, the handles of a context and of
          \* its copy, the handle used last and the other context before
  pc      \* "api" in Spec, "reuse" in SpecReuse; in SpecCall and SpecRT the
          \* caller's position in its script

vars == <<ctx, tape, pos, last, probe, strm, reuse, rt, dup, pc>>

\* the context as the state keeps it: the pending bytes, zero behind them
Pending(c) ==
  [c EXCEPT !.buf = [i \in 1..AES_BLOCK_SIZE |-> IF i <= c.bufsz THEN c.buf[i] ELSE 0]]

\* the result of a call that neither writes output nor calls the cipher
Plain0(c, ret) == Result(c, ret, <<>>, NoOutl, <<>>, 0)

\* bytes handed to the cipher primitive by a call
RECURSIVE CallBytes(_)
CallBytes(calls) ==
  IF calls = <<>> THEN 0 ELSE calls[1].len + CallBytes(Tail(calls))

\* the bytes handed to the cipher primitive by a call, in call order
RECURSIVE CallData(_)
CallData(calls) ==
  IF calls = <<>> THEN <<>>
  ELSE Take(calls[1].data, calls[1].len) \o CallData(Tail(calls))

\* the record of a call: the operation, the return value, *outl, the value
\* aes_get_params stored, the context aes_dupctx returned
Rec(op, r, got, copy) ==
  [op |-> op, ret |-> r.ret, outl |-> r.outl, got |-> got, copy |-> copy]

\* op: the probed operation; pre: the context it was entered with; in: its
\* input; cfail: the cipher invocation made to fail; res: its result
NoProbe ==
  [op |-> "none", pre |-> aes_256_ecb_newctx, in |-> <<>>, cfail |-> 0,
   res |-> Plain0(aes_256_ecb_newctx, 1)]

\* plain: an init succeeded on a context with nothing pending and only
\* successful aes_update calls followed it; T, emitted and xform count that
\* stream's input bytes, output bytes and bytes handed to the cipher;
\* fin: the last call was the aes_final ending it
NoStrm == [plain |-> FALSE, fin |-> FALSE, T |-> 0, emitted |-> 0, xform |-> 0]

\* armed: the last call was a successful aes_final; on: an init followed it
\* at once and ctx is a fresh context run in step since; same: every call
\* since returned and emitted on ctx what it did on the context in use
NoReuse == [armed |-> FALSE, on |-> FALSE, same |-> TRUE,
            ctx |-> aes_256_ecb_newctx]

NoRt == [key |-> 0, pat |-> 1, fed |-> 0, used |-> 0, ct |-> <<>>, pt |-> <<>>,
         ok |-> TRUE]

\* storage no context was allocated in
Unused == [live |-> FALSE, c |-> aes_256_ecb_newctx]

\* obj: the storage at every address, live while allocated; in, ret: the
\* addresses of the caller's context and of its copy (NULL: none); who: the
\* address the last call was made on; other: the storage at the other of
\* the two addresses before that call
NoDup == [obj |-> [a \in Addrs |-> Unused], in |-> NULL, ret |-> NULL,
          who |-> NULL, other |-> Unused]

Init ==
  /\ ctx = aes_256_ecb_newctx
  /\ tape = 1
  /\ pos = 0
  /\ last = Rec("newctx", Plain0(aes_256_ecb_newctx, 1), NoOutl,
               aes_256_ecb_newctx)
  /\ probe = NoProbe
  /\ strm = NoStrm
  /\ reuse = NoReuse
  /\ rt = NoRt
  /\ dup = NoDup
  /\ pc = "api"

\* SpecReuse follows the calls in reuse, Spec in last and strm
Mon == pc = "reuse"

\* the same call on the context run in step: q is its result there, r the
\* result on the context in use
Step(r, q) ==
  IF reuse.on
  THEN [reuse EXCEPT !.armed = FALSE, !.ctx = Pending(q.ctx),
          !.same = @ /\ r.ret = q.ret /\ r.out = q.out /\ r.outl = q.outl]
  ELSE NoReuse

\* a freshly created context with the key and the padding flag of c
Fresh(c) == [aes_256_ecb_newctx EXCEPT !.pad = c.pad, !.ks = c.ks]

InitOp(op, r, fresh, q) ==
  /\ ctx' = Pending(r.ctx)
  /\ last' = IF Mon THEN last
              ELSE Rec(op, Plain0(r.ctx, r.ret), NoOutl, aes_256_ecb_newctx)
  /\ strm' = IF Mon THEN strm
              ELSE [plain |-> r.ret = 1 /\ ctx.bufsz = 0, fin |-> FALSE,
                    T |-> 0, emitted |-> 0, xform |-> 0]
  /\ reuse' = IF ~Mon THEN reuse
               ELSE IF reuse.armed
                 THEN [armed |-> FALSE, on |-> TRUE, same |-> r.ret = fresh.ret,
                       ctx |-> Pending(fresh.ctx)]
               ELSE Step(Plain0(r.ctx, r.ret), Plain0(q.ctx, q.ret))
  /\ UNCHANGED <<tape, pos, probe, rt, pc, dup>>

Einit(key, iv, ok) ==
  /\ key = NULL => ok
  /\ InitOp("einit", aes_einit(ctx, key, iv, ok),
            aes_einit(Fresh(ctx), key, iv, ok), aes_einit(reuse.ctx, key, iv, ok))

Dinit(key, iv, ok) ==
  /\ key = NULL => ok
  /\ InitOp("dinit", aes_dinit(ctx, key, iv, ok),
            aes_dinit(Fresh(ctx), key, iv, ok), aes_dinit(reuse.ctx, key, iv, ok))

\* cfail ranges over the cipher invocations the call makes
Update(n, cfail) ==
  /\ pos + n <= TapeLen
  /\ LET in == SubSeq(Tape[tape], pos + 1, pos + n)
         r == aes_update(ctx, in, cfail)
         ok == strm.plain /\ r.ret = 1
     IN  /\ cfail <= Len(r.calls)
         /\ ctx' = Pending(r.ctx)
         /\ pos' = IF r.ret = 1 THEN pos + n ELSE 0
         /\ last' = IF Mon THEN last
                     ELSE Rec("update", r, NoOutl, aes_256_ecb_newctx)
         /\ strm' = IF Mon THEN strm
                     ELSE IF ok
                       THEN [plain |-> TRUE, fin |-> FALSE, T |-> strm.T + n,
                             emitted |-> strm.emitted + r.outl,
                             xform |-> strm.xform + CallBytes(r.calls)]
                     ELSE NoStrm
         /\ reuse' = IF ~Mon THEN reuse
                      ELSE Step(r, aes_update(reuse.ctx, in, cfail))
  /\ UNCHANGED <<tape, probe, rt, pc, dup>>

Final(cfail) ==
  /\ LET r == aes_final(ctx, cfail)
         ok == strm.plain /\ r.ret = 1
         stepped == Step(r, aes_final(reuse.ctx, cfail))
     IN  /\ cfail <= Len(r.calls)
         /\ ctx' = Pending(r.ctx)
         /\ pos' = IF r.ret = 1 THEN 0 ELSE pos
         /\ last' = IF Mon THEN last
                     ELSE Rec("final", r, NoOutl, aes_256_ecb_newctx)
         /\ strm' = IF Mon THEN strm
                     ELSE IF ok
                       THEN [plain |-> FALSE, fin |-> TRUE, T |-> strm.T,
                             emitted |-> strm.emitted + r.outl,
                             xform |-> strm.xform + CallBytes(r.calls)]
                     ELSE NoStrm
         /\ reuse' = IF ~Mon THEN reuse
                      ELSE IF r.ret = 1 THEN [stepped EXCEPT !.armed = TRUE]
                      ELSE stepped
  /\ UNCHANGED <<tape, probe, rt, pc, dup>>

SetParams(param) ==
  /\ LET r == aes_set_params(ctx, param)
         q == aes_set_params(reuse.ctx, param)
     IN  /\ ctx' = Pending(r.ctx)
         /\ last' = IF Mon THEN last
                     ELSE Rec("set_params", Plain0(r.ctx, r.ret), NoOutl,
                              aes_256_ecb_newctx)
         /\ reuse' = IF ~Mon THEN reuse
                      ELSE Step(Plain0(r.ctx, r.ret), Plain0(q.ctx, q.ret))
  /\ strm' = IF Mon THEN strm ELSE NoStrm
  /\ UNCHANGED <<tape, pos, probe, rt, pc, dup>>

GetParams(param, setok) ==
  /\ param = "absent" => setok
  /\ LET r == aes_get_params(ctx, param, setok)
     IN  /\ ctx' = Pending(r.ctx)
         /\ last' = Rec("get_params", Plain0(r.ctx, r.ret), r.got,
                       aes_256_ecb_newctx)
  /\ strm' = NoStrm
  /\ UNCHANGED <<tape, pos, probe, reuse, rt, pc, dup>>

\* the caller duplicates the context; the copy is kept in the call's record
Dupctx ==
  /\ last' = Rec("dupctx", Plain0(ctx, 1), NoOutl, aes_dupctx(ctx))
  /\ strm' = NoStrm
  /\ UNCHANGED <<ctx, tape, pos, probe, reuse, rt, pc, dup>>

\* the (key, iv) arguments of an init: both NULL, or a key and an iv
InitArgs == {<<NULL, NULL>>} \cup {<<k, 1>> : k \in Keys}

PadParams ==
  {[kind |-> "absent", val |-> 0], [kind |-> "unreadable", val |-> 0]}
  \cup {[kind |-> "int", val |-> v] : v \in {0, 1, 2}}

Next ==
  \/ \E a \in InitArgs, ok \in BOOLEAN : Einit(a[1], a[2], ok)
  \/ \E a \in InitArgs, ok \in BOOLEAN : Dinit(a[1], a[2], ok)
  \/ \E n \in 0..MaxChunk, cfail \in 0..2 : Update(n, cfail)
  \/ \E cfail \in 0..1 : Final(cfail)
  \/ \E param \in PadParams : SetParams(param)
  \/ \E param \in {"absent", "padding"}, setok \in BOOLEAN : GetParams(param, setok)
  \/ Dupctx

Spec == Init /\ [][Next]_vars

(***************************************************************************)
(* SpecReuse: contexts that are used again.  The caller makes the calls of *)
(* Spec that start, feed, end and configure a stream; from the init that   *)
(* follows a successful aes_final, every call is also made on a freshly    *)
(* created context with the key and the padding flag the reused context    *)
(* had at that init, and the results are compared.                         *)
(***************************************************************************)
InitReuse ==
  /\ ctx = aes_256_ecb_newctx
  /\ tape = 1
  /\ pos = 0
  /\ last = Rec("newctx", Plain0(aes_256_ecb_newctx, 1), NoOutl,
               aes_256_ecb_newctx)
  /\ probe = NoProbe
  /\ strm = NoStrm
  /\ reuse = NoReuse
  /\ rt = NoRt
  /\ dup = NoDup
  /\ pc = "reuse"

NextReuse ==
  \/ \E a \in InitArgs, ok \in BOOLEAN : Einit(a[1], a[2], ok)
  \/ \E a \in InitArgs, ok \in BOOLEAN : Dinit(a[1], a[2], ok)
  \/ \E n \in 0..MaxChunk, cfail \in 0..2 : Update(n, cfail)
  \/ \E cfail \in 0..1 : Final(cfail)
  \/ \E param \in PadParams : SetParams(param)

SpecReuse == InitReuse /\ [][NextReuse]_vars

(***************************************************************************)
(* SpecCall: one probed call.  The caller creates a context, runs          *)
(* aes_dinit (with or without a key), supplies the first b bytes of a tape *)
(* to aes_update (a decrypting context with padding holds up to a full     *)
(* block), sets the direction with a keyless init and the padding flag     *)
(* with aes_set_params, and then makes the probed aes_update or aes_final  *)
(* call, which is recorded in full.                                        *)
(***************************************************************************)
InitCall ==
  /\ ctx = aes_256_ecb_newctx
  /\ tape = 1
  /\ pos = 0
  /\ last = Rec("newctx", Plain0(aes_256_ecb_newctx, 1), NoOutl,
               aes_256_ecb_newctx)
  /\ probe = NoProbe
  /\ strm = NoStrm
  /\ reuse = NoReuse
  /\ rt = NoRt
  /\ dup = NoDup
  /\ pc = "new"

Keyed(a, t) ==
  /\ pc = "new"
  /\ ctx' = Pending(aes_dinit(ctx, a[1], a[2], TRUE).ctx)
  /\ tape' = t
  /\ pc' = "fill"
  /\ UNCHANGED <<pos, last, probe, strm, reuse, rt, dup>>

Fill(b) ==
  /\ pc = "fill"
  /\ LET r == aes_update(ctx, Take(Tape[tape], b), 0)
     IN  /\ r.ret = 1
         /\ ctx' = Pending(r.ctx)
  /\ pos' = b
  /\ pc' = "dir"
  /\ UNCHANGED <<tape, last, probe, strm, reuse, rt, dup>>

Direct(enc) ==
  /\ pc = "dir"
  /\ ctx' = Pending(IF enc = 1 THEN aes_einit(ctx, NULL, NULL, TRUE).ctx
                               ELSE aes_dinit(ctx, NULL, NULL, TRUE).ctx)
  /\ pc' = "pad"
  /\ UNCHANGED <<tape, pos, last, probe, strm, reuse, rt, dup>>

Padding(v) ==
  /\ pc = "pad"
  /\ ctx' = Pending(aes_set_params(ctx, [kind |-> "int", val |-> v]).ctx)
  /\ pc' = "probe"
  /\ UNCHANGED <<tape, pos, last, probe, strm, reuse, rt, dup>>

ProbeUpdate(n, cfail) ==
  /\ pc = "probe"
  /\ pos + n <= ProbeLen
  /\ LET in == SubSeq(Tape[tape], pos + 1, pos + n)
         r == aes_update(ctx, in, cfail)
     IN  /\ cfail <= Len(r.calls)
         /\ probe' = [op |-> "update", pre |-> ctx, in |-> in, cfail |-> cfail,
                      res |-> r]
         /\ ctx' = Pending(r.ctx)
  /\ pos' = pos + n
  /\ pc' = "done"
  /\ UNCHANGED <<tape, last, strm, reuse, rt, dup>>

ProbeFinal(cfail) ==
  /\ pc = "probe"
  /\ LET r == aes_final(ctx, cfail)
     IN  /\ cfail <= Len(r.calls)
         /\ probe' = [op |-> "final", pre |-> ctx, in |-> <<>>, cfail |-> cfail,
                      res |-> r]
         /\ ctx' = Pending(r.ctx)
  /\ pc' = "done"
  /\ UNCHANGED <<tape, pos, last, strm, reuse, rt, dup>>

NextCall ==
  \/ \E a \in InitArgs, t \in Tapes : Keyed(a, t)
  \/ \E b \in 0..AES_BLOCK_SIZE : Fill(b)
  \/ \E enc \in 0..1 : Direct(enc)
  \/ \E v \in 0..1 : Padding(v)
  \/ \E n \in 0..MaxInl, cfail \in 0..2 : ProbeUpdate(n, cfail)
  \/ \E cfail \in 0..1 : ProbeFinal(cfail)

SpecCall == InitCall /\ [][NextCall]_vars

(***************************************************************************)
(* SpecRT: the round trip.  A plaintext is encrypted in chunks of any      *)
(* length with padding enabled and ended by aes_final at any point; the    *)
(* output is collected and decrypted in chunks of any length, on the same  *)
(* context or on a new one, and ended by aes_final once all of it is       *)
(* supplied.                                                               *)
(***************************************************************************)
InitRT ==
  /\ ctx = aes_256_ecb_newctx
  /\ tape = 1
  /\ pos = 0
  /\ last = Rec("newctx", Plain0(aes_256_ecb_newctx, 1), NoOutl,
               aes_256_ecb_newctx)
  /\ probe = NoProbe
  /\ strm = NoStrm
  /\ reuse = NoReuse
  /\ rt \in {[NoRt EXCEPT !.key = k, !.pat = t] : k \in Keys, t \in Pats}
  /\ dup = NoDup
  /\ pc = "einit"

RtEinit ==
  /\ pc = "einit"
  /\ LET r == aes_einit(ctx, rt.key, 1, TRUE)
     IN  /\ ctx' = Pending(r.ctx)
         /\ rt' = [rt EXCEPT !.ok = @ /\ r.ret = 1]
  /\ pc' = "enc"
  /\ UNCHANGED <<tape, pos, last, probe, strm, reuse, dup>>

RtEncUpdate(n) ==
  /\ pc = "enc"
  /\ rt.fed + n <= MaxPlain
  /\ LET r == aes_update(ctx, SubSeq(Plain[rt.pat], rt.fed + 1, rt.fed + n), 0)
     IN  /\ ctx' = Pending(r.ctx)
         /\ rt' = [rt EXCEPT !.fed = @ + n, !.ct = @ \o r.out,
                             !.ok = @ /\ r.ret = 1 /\ r.outl = Len(r.out)]
  /\ UNCHANGED <<tape, pos, last, probe, strm, reuse, pc, dup>>

RtEncFinal ==
  /\ pc = "enc"
  /\ LET r == aes_final(ctx, 0)
     IN  /\ ctx' = Pending(r.ctx)
         /\ rt' = [rt EXCEPT !.ct = @ \o r.out,
                             !.ok = @ /\ r.ret = 1 /\ r.outl = Len(r.out)]
  /\ pc' = "dinit"
  /\ UNCHANGED <<tape, pos, last, probe, strm, reuse, dup>>

\* fresh: the decrypting side uses a new context
RtDinit(fresh) ==
  /\ pc = "dinit"
  /\ LET r == aes_dinit(IF fresh THEN aes_256_ecb_newctx ELSE ctx, rt.key, 1, TRUE)
     IN  /\ ctx' = Pending(r.ctx)
         /\ rt' = [rt EXCEPT !.ok = @ /\ r.ret = 1]
  /\ pc' = "dec"
  /\ UNCHANGED <<tape, pos, last, probe, strm, reuse, dup>>

RtDecUpdate(n) ==
  /\ pc = "dec"
  /\ rt.used + n <= Len(rt.ct)
  /\ LET r == aes_update(ctx, SubSeq(rt.ct, rt.used + 1, rt.used + n), 0)
     IN  /\ ctx' = Pending(r.ctx)
         /\ rt' = [rt EXCEPT !.used = @ + n, !.pt = @ \o r.out,
                             !.ok = @ /\ r.ret = 1 /\ r.outl = Len(r.out)]
  /\ UNCHANGED <<tape, pos, last, probe, strm, reuse, pc, dup>>

RtDecFinal ==
  /\ pc = "dec"
  /\ rt.used = Len(rt.ct)
  /\ LET r == aes_final(ctx, 0)
     IN  /\ ctx' = Pending(r.ctx)
         /\ rt' = [rt EXCEPT !.pt = @ \o r.out,
                             !.ok = @ /\ r.ret = 1 /\ r.outl = Len(r.out)]
  /\ pc' = "done"
  /\ UNCHANGED <<tape, pos, last, probe, strm, reuse, dup>>

NextRT ==
  \/ RtEinit
  \/ \E n \in 0..MaxInl : RtEncUpdate(n)
  \/ RtEncFinal
  \/ \E fresh \in BOOLEAN : RtDinit(fresh)
  \/ \E n \in 0..MaxInl : RtDecUpdate(n)
  \/ RtDecFinal

SpecRT == InitRT /\ [][NextRT]_vars

(***************************************************************************)
(* SpecDup: a context and its copy.  The caller brings a context to any    *)
(* pending count, direction and padding flag as in SpecCall, duplicates    *)
(* it, and then makes two calls, each on either of the two contexts.       *)
(* Contexts are storage at addresses, so that a call through one address   *)
(* shows in what the other address holds when the two share storage.       *)
(***************************************************************************)
\* inputs of the aes_update calls made after the duplication
DupChunks == {0, 1, AES_BLOCK_SIZE, AES_BLOCK_SIZE + 1}

\* the caller's context, kept in ctx so far, is the storage at address 1
DupCall ==
  /\ pc = "probe"
  /\ LET obj == [NoDup.obj EXCEPT ![1] = [live |-> TRUE, c |-> ctx]]
         r == dupctx_store(obj, 1)
     IN  dup' = [obj |-> r.obj, in |-> 1, ret |-> r.ret, who |-> NULL,
                 other |-> Unused]
  /\ pc' = "op1"
  /\ UNCHANGED <<ctx, tape, pos, last, probe, strm, reuse, rt>>

\* OPENSSL_malloc returns NULL and *ret = *in stores through it: the call
\* does not return
DupNoMem ==
  /\ pc = "probe"
  /\ pc' = "crashed"
  /\ UNCHANGED <<ctx, tape, pos, last, probe, strm, reuse, rt, dup>>

\* of the two addresses, the one that is not a
OtherOf(a) == IF a = dup.in THEN dup.ret ELSE dup.in

\* a call on the context at address a that leaves o there
DupStep(a, o) ==
  /\ pc \in {"op1", "op2"}
  /\ a \in {dup.in, dup.ret}
  /\ dup.obj[a].live
  /\ dup' = [dup EXCEPT !.obj[a] = o, !.who = a, !.other = dup.obj[OtherOf(a)]]
  /\ pc' = IF pc = "op1" THEN "op2" ELSE "end"
  /\ UNCHANGED <<ctx, tape, pos, last, probe, strm, reuse, rt>>

Live(c) == [live |-> TRUE, c |-> Pending(c)]

DupEinit(a, key, iv, ok) ==
  /\ key = NULL => ok
  /\ DupStep(a, Live(aes_einit(dup.obj[a].c, key, iv, ok).ctx))

DupDinit(a, key, iv, ok) ==
  /\ key = NULL => ok
  /\ DupStep(a, Live(aes_dinit(dup.obj[a].c, key, iv, ok).ctx))

DupUpdate(a, n) ==
  DupStep(a, Live(aes_update(dup.obj[a].c, Take(Tape[tape], n), 0).ctx))

DupFinal(a) == DupStep(a, Live(aes_final(dup.obj[a].c, 0).ctx))

DupSetParams(a, v) ==
  DupStep(a, Live(aes_set_params(dup.obj[a].c, [kind |-> "int", val |-> v]).ctx))

DupFree(a) == DupStep(a, aes_freectx(dup.obj[a].c))

NextDup ==
  \/ \E k \in InitArgs : Keyed(k, 1)
  \/ \E b \in 0..AES_BLOCK_SIZE : Fill(b)
  \/ \E enc \in 0..1 : Direct(enc)
  \/ \E v \in 0..1 : Padding(v)
  \/ DupCall
  \/ DupNoMem
  \/ \E a \in Addrs, k \in InitArgs, ok \in BOOLEAN : DupEinit(a, k[1], k[2], ok)
  \/ \E a \in Addrs, k \in InitArgs, ok \in BOOLEAN : DupDinit(a, k[1], k[2], ok)
  \/ \E a \in Addrs, n \in DupChunks : DupUpdate(a, n)
  \/ \E a \in Addrs : DupFinal(a)
  \/ \E a \in Addrs, v \in 0..1 : DupSetParams(a, v)
  \/ \E a \in Addrs : DupFree(a)

SpecDup == InitCall /\ [][NextDup]_vars

(***************************************************************************)
(* SpecKey: the key state of a context.  pc follows the last init that was *)
(* given a key: "nokey" before any, "bad" after one whose key setup        *)
(* failed, "ok" after one whose key setup succeeded.                       *)
(***************************************************************************)
InitKey ==
  /\ ctx = aes_256_ecb_newctx
  /\ tape = 1
  /\ pos = 0
  /\ last = Rec("newctx", Plain0(aes_256_ecb_newctx, 1), NoOutl,
               aes_256_ecb_newctx)
  /\ probe = NoProbe
  /\ strm = NoStrm
  /\ reuse = NoReuse
  /\ rt = NoRt
  /\ dup = NoDup
  /\ pc = "nokey"

KeyInit(enc, key, iv, ok) ==
  /\ key = NULL => ok
  /\ LET r == IF enc = 1 THEN aes_einit(ctx, key, iv, ok)
              ELSE aes_dinit(ctx, key, iv, ok)
     IN  /\ ctx' = Pending(r.ctx)
         /\ last' = Rec(IF enc = 1 THEN "einit" ELSE "dinit",
                        Plain0(r.ctx, r.ret), NoOutl, aes_256_ecb_newctx)
         /\ pc' = IF key = NULL THEN pc ELSE IF r.ret = 1 THEN "ok" ELSE "bad"
  /\ UNCHANGED <<tape, pos, probe, strm, reuse, rt, dup>>

\* the input lengths of the aes_update calls
KeyChunks == {0, 1, AES_BLOCK_SIZE - 1, AES_BLOCK_SIZE, AES_BLOCK_SIZE + 1}

KeyUpdate(n, cfail) ==
  /\ pos + n <= TapeLen
  /\ LET r == aes_update(ctx, SubSeq(Tape[tape], pos + 1, pos + n), cfail)
     IN  /\ cfail <= Len(r.calls)
         /\ ctx' = Pending(r.ctx)
         /\ pos' = IF r.ret = 1 THEN pos + n ELSE 0
         /\ last' = Rec("update", r, NoOutl, aes_256_ecb_newctx)
  /\ UNCHANGED <<tape, probe, strm, reuse, rt, dup, pc>>

KeyFinal(cfail) ==
  /\ LET r == aes_final(ctx, cfail)
     IN  /\ cfail <= Len(r.calls)
         /\ ctx' = Pending(r.ctx)
         /\ pos' = IF r.ret = 1 THEN 0 ELSE pos
         /\ last' = Rec("final", r, NoOutl, aes_256_ecb_newctx)
  /\ UNCHANGED <<tape, probe, strm, reuse, rt, dup, pc>>

KeySetParams(v) ==
  /\ LET r == aes_set_params(ctx, [kind |-> "int", val |-> v])
     IN  /\ ctx' = Pending(r.ctx)
         /\ last' = Rec("set_params", Plain0(r.ctx, r.ret), NoOutl,
                        aes_256_ecb_newctx)
  /\ UNCHANGED <<tape, pos, probe, strm, reuse, rt, dup, pc>>

NextKey ==
  \/ \E enc \in 0..1, a \in InitArgs, ok \in BOOLEAN : KeyInit(enc, a[1], a[2], ok)
  \/ \E n \in KeyChunks, cfail \in 0..2 : KeyUpdate(n, cfail)
  \/ \E cfail \in 0..1 : KeyFinal(cfail)
  \/ \E v \in 0..1 : KeySetParams(v)

SpecKey == InitKey /\ [][NextKey]_vars

(***************************************************************************)
(* SpecChunk: one stream fed in chunks.  The caller sets the padding flag, *)
(* starts a stream in either direction under a key, feeds it the bytes of  *)
(* a tape in chunks of any length, zero included, and ends it at any       *)
(* point; rt.fed counts the bytes fed, rt.used the non-empty chunks (up to *)
(* two), rt.ct collects the output of every call and rt.ok is the result   *)
(* of aes_final, or of an aes_update that failed and ended the stream.     *)
(***************************************************************************)
InitChunk ==
  /\ ctx = aes_256_ecb_newctx
  /\ tape = 1
  /\ pos = 0
  /\ last = Rec("newctx", Plain0(aes_256_ecb_newctx, 1), NoOutl,
               aes_256_ecb_newctx)
  /\ probe = NoProbe
  /\ strm = NoStrm
  /\ reuse = NoReuse
  /\ rt = NoRt
  /\ dup = NoDup
  /\ pc = "new"

\* the context a stream starts on: padding flag v, direction enc, key
StreamStart(enc, v, key) ==
  LET c == aes_set_params(aes_256_ecb_newctx, [kind |-> "int", val |-> v]).ctx
  IN  IF enc = 1 THEN aes_einit(c, key, NULL, TRUE).ctx
      ELSE aes_dinit(c, key, NULL, TRUE).ctx

ChunkStart(enc, v, key, t) ==
  /\ pc = "new"
  /\ ctx' = Pending(StreamStart(enc, v, key))
  /\ tape' = t
  /\ rt' = [NoRt EXCEPT !.key = key]
  /\ pc' = "feed"
  /\ UNCHANGED <<pos, last, probe, strm, reuse, dup>>

ChunkUpdate(n) ==
  /\ pc = "feed"
  /\ pos + n <= TapeLen
  /\ LET r == aes_update(ctx, SubSeq(Tape[tape], pos + 1, pos + n), 0)
     IN  /\ ctx' = Pending(r.ctx)
         /\ rt' = [rt EXCEPT !.fed = @ + n, !.ct = @ \o r.out,
                             !.used = IF n > 0 /\ @ < 2 THEN @ + 1 ELSE @,
                             !.ok = r.ret = 1]
         /\ pc' = IF r.ret = 1 THEN pc ELSE "done"
  /\ pos' = pos + n
  /\ UNCHANGED <<tape, last, probe, strm, reuse, dup>>

ChunkFinal ==
  /\ pc = "feed"
  /\ LET r == aes_final(ctx, 0)
     IN  /\ ctx' = Pending(r.ctx)
         /\ rt' = [rt EXCEPT !.ct = @ \o r.out, !.ok = r.ret = 1]
  /\ pc' = "done"
  /\ UNCHANGED <<tape, pos, last, probe, strm, reuse, dup>>

\* the whole input given to a single aes_update, followed by aes_final
OneShot(c, in) ==
  LET u == aes_update(c, in, 0)
      f == aes_final(u.ctx, 0)
  IN  [out |-> u.out \o f.out, ok |-> u.ret = 1 /\ f.ret = 1]

NextChunk ==
  \/ \E enc \in 0..1, v \in 0..1, key \in Keys, t \in Tapes :
       ChunkStart(enc, v, key, t)
  \/ \E n \in 0..MaxChunk : ChunkUpdate(n)
  \/ ChunkFinal

SpecChunk == InitChunk /\ [][NextChunk]_vars

(***************************************************************************)
(* Properties                                                              *)
(***************************************************************************)

\* C1 (SpecRT) Round trip: with padding enabled, for every plaintext and
\* every split of the input into aes_update calls on both sides, every call
\* of aes_einit / aes_update* / aes_final and of aes_dinit / aes_update* /
\* aes_final over the collected output succeeds, and the collected decrypt
\* output equals the plaintext.
RoundTrip ==
  /\ rt.ok
  /\ pc = "done" => rt.pt = Take(Plain[rt.pat], rt.fed)

\* a round trip of two full blocks of plaintext has completed
RoundTripDone ==
  /\ pc = "done"
  /\ rt.fed = 2 * AES_BLOCK_SIZE
  /\ Len(rt.ct) = 3 * AES_BLOCK_SIZE
  /\ rt.pt = Take(Plain[rt.pat], rt.fed)

\* C2 (Spec) Holdback: on a decrypt stream with padding enabled that was
\* started by aes_dinit and continued by aes_update calls only, once T > 0
\* bytes were supplied the pending count is in 1..block size, it is the block
\* size exactly when T is a multiple of it, and the held bytes were neither
\* handed to the transform nor emitted, whatever the lengths of the calls
\* (zero included).
Holdback ==
  (strm.plain /\ ctx.enc = 0 /\ ctx.pad = 1 /\ strm.T > 0) =>
    /\ ctx.bufsz \in 1..AES_BLOCK_SIZE
    /\ ctx.bufsz = ((strm.T - 1) % AES_BLOCK_SIZE) + 1
    /\ (ctx.bufsz = AES_BLOCK_SIZE) <=> (strm.T % AES_BLOCK_SIZE = 0)
    /\ strm.xform = strm.T - ctx.bufsz
    /\ strm.emitted = strm.T - ctx.bufsz

\* two blocks were supplied to a decrypt stream with padding: the first was
\* transformed, the second is held
HoldbackHeld ==
  /\ strm.plain /\ ctx.enc = 0 /\ ctx.pad = 1
  /\ strm.T = 2 * AES_BLOCK_SIZE
  /\ ctx.bufsz = AES_BLOCK_SIZE
  /\ strm.xform = AES_BLOCK_SIZE

\* C3 (Spec) Padding determinism: an encrypt stream with padding enabled
\* that received L bytes over any chunking has emitted
\* L + (block size - L mod block size) bytes once aes_final succeeded, the
\* last block size of them by aes_final.
PaddingDeterminism ==
  (strm.fin /\ ctx.enc = 1 /\ ctx.pad = 1) =>
    /\ strm.emitted = strm.T + (AES_BLOCK_SIZE - (strm.T % AES_BLOCK_SIZE))
    /\ last.op = "final" /\ last.ret = 1 /\ last.outl = AES_BLOCK_SIZE

\* an encrypt stream of two full blocks has ended with a third block
PaddingFullBlock ==
  /\ strm.fin /\ ctx.enc = 1 /\ ctx.pad = 1
  /\ strm.T = 2 * AES_BLOCK_SIZE
  /\ strm.emitted = 3 * AES_BLOCK_SIZE

\* C4 (SpecCall) Update bookkeeping: an aes_update call entered with b
\* pending bytes and n input bytes, the cipher not failing, succeeds; when
\* encrypting or without padding it emits block size * floor((b+n)/block
\* size) bytes and leaves (b+n) mod block size pending; when decrypting with
\* padding and b+n > 0 it emits block size * (ceil((b+n)/block size) - 1)
\* bytes and leaves the other 1..block size bytes pending; with b = 0 and
\* n < block size it emits nothing and leaves the n input bytes pending.
UpdateBookkeeping ==
  (probe.op = "update" /\ probe.cfail = 0) =>
    LET b == probe.pre.bufsz
        n == Len(probe.in)
        r == probe.res
    IN  /\ (probe.pre.enc = 1 \/ probe.pre.pad = 0) =>
             /\ r.ret = 1
             /\ r.outl = AES_BLOCK_SIZE * ((b + n) \div AES_BLOCK_SIZE)
             /\ Len(r.out) = r.outl
             /\ r.ctx.bufsz = (b + n) % AES_BLOCK_SIZE
        /\ (probe.pre.enc = 0 /\ probe.pre.pad = 1 /\ b + n > 0) =>
             /\ r.ret = 1
             /\ r.outl = AES_BLOCK_SIZE
                         * (((b + n + AES_BLOCK_SIZE - 1) \div AES_BLOCK_SIZE) - 1)
             /\ Len(r.out) = r.outl
             /\ r.ctx.bufsz = b + n - r.outl
             /\ r.ctx.bufsz \in 1..AES_BLOCK_SIZE
        /\ (b = 0 /\ n < AES_BLOCK_SIZE) =>
             /\ r.ret = 1
             /\ r.outl = 0
             /\ r.out = <<>>
             /\ r.ctx.bufsz = n
             /\ Take(r.ctx.buf, n) = probe.in

\* a decrypting update with padding, entered with a held block and given two
\* more blocks, emitted two blocks and holds the last
UpdateHeldTwoBlocks ==
  /\ probe.op = "update" /\ probe.cfail = 0
  /\ probe.pre.enc = 0 /\ probe.pre.pad = 1
  /\ probe.pre.bufsz = AES_BLOCK_SIZE
  /\ Len(probe.in) = 2 * AES_BLOCK_SIZE
  /\ probe.res.outl = 2 * AES_BLOCK_SIZE
  /\ probe.res.ctx.bufsz = AES_BLOCK_SIZE

\* C5 (SpecCall) No input byte is dropped: when aes_update returns success,
\* pending after + emitted = pending before + input length; the bytes handed
\* to the transform followed by the bytes pending afterwards are the bytes
\* pending before followed by the input, and the output is the transform of
\* the bytes handed over, in that order.
NoByteDropped ==
  (probe.op = "update" /\ probe.res.ret = 1) =>
    LET r == probe.res
    IN  /\ r.ctx.bufsz + r.outl = probe.pre.bufsz + Len(probe.in)
        /\ CallData(r.calls) \o Take(r.ctx.buf, r.ctx.bufsz)
             = Take(probe.pre.buf, probe.pre.bufsz) \o probe.in
        /\ r.out = cipher(probe.pre, CallData(r.calls))
        /\ Len(r.out) = r.outl

\* a successful update flushed the topped-up buffer, transformed one block
\* straight from the input and kept a partial block
UpdateFlushDirectKeep ==
  /\ probe.op = "update" /\ probe.res.ret = 1
  /\ probe.pre.bufsz \in 1..(AES_BLOCK_SIZE - 1)
  /\ Len(probe.res.calls) = 2
  /\ probe.res.calls[1].src = "buf"
  /\ probe.res.calls[2].len = AES_BLOCK_SIZE
  /\ probe.res.ctx.bufsz \in 1..(AES_BLOCK_SIZE - 1)

\* C6 (Spec) Pending-length invariant: from a new context, after any
\* sequence of aes_einit, aes_dinit, aes_update, aes_final, aes_set_params,
\* aes_get_params and aes_dupctx calls, successful or failed, the pending
\* count of the context, and of a copy aes_dupctx returned, is in
\* 0..block size.
PendingBound ==
  /\ ctx.bufsz \in 0..AES_BLOCK_SIZE
  /\ last.copy.bufsz \in 0..AES_BLOCK_SIZE

\* an aes_update call failed and left a full buffer
PendingFullAfterFailure ==
  /\ last.op = "update" /\ last.ret = 0
  /\ ctx.bufsz = AES_BLOCK_SIZE

\* C7 (SpecCall) Truncated decrypt stream: aes_final on a decrypting context
\* whose pending count is not the block size fails without invoking the
\* transform, except that it succeeds with zero output bytes when padding is
\* disabled and nothing is pending.
TruncatedRejected ==
  (probe.op = "final" /\ probe.pre.enc = 0
   /\ probe.pre.bufsz # AES_BLOCK_SIZE) =>
    IF probe.pre.pad = 0 /\ probe.pre.bufsz = 0
    THEN /\ probe.res.ret = 1
         /\ probe.res.outl = 0
         /\ probe.res.out = <<>>
         /\ probe.res.calls = <<>>
    ELSE /\ probe.res.ret = 0
         /\ probe.res.out = <<>>
         /\ probe.res.calls = <<>>

\* aes_final rejected a partial block on a decrypting context with padding
TruncatedPartial ==
  /\ probe.op = "final" /\ probe.pre.enc = 0 /\ probe.pre.pad = 1
  /\ probe.pre.bufsz \in 1..(AES_BLOCK_SIZE - 1)
  /\ probe.res.ret = 0

\* C8 (SpecCall) Decrypt finalisation validates and strips padding: on a
\* decrypting context holding a full block, the cipher not failing, with
\* padding enabled and p the last byte of the transformed block, aes_final
\* fails if p is 0, p exceeds the block size or one of the last p bytes
\* differs from p, and otherwise succeeds emitting the first block size - p
\* bytes of the transformed block; with padding disabled it emits the whole
\* transformed block.
DecFinalPadding ==
  (probe.op = "final" /\ probe.cfail = 0 /\ probe.pre.enc = 0
   /\ probe.pre.bufsz = AES_BLOCK_SIZE) =>
    LET blk == cipher(probe.pre, probe.pre.buf)
        p == blk[AES_BLOCK_SIZE]
        r == probe.res
    IN  IF probe.pre.pad = 1
        THEN IF \/ p = 0
                \/ p > AES_BLOCK_SIZE
                \/ \E i \in (AES_BLOCK_SIZE - p + 1)..AES_BLOCK_SIZE : blk[i] # p
             THEN r.ret = 0
             ELSE /\ r.ret = 1
                  /\ r.outl = AES_BLOCK_SIZE - p
                  /\ r.out = Take(blk, AES_BLOCK_SIZE - p)
        ELSE /\ r.ret = 1
             /\ r.outl = AES_BLOCK_SIZE
             /\ r.out = blk

\* aes_final rejected a held block whose pad bytes disagree
DecFinalMismatch ==
  /\ probe.op = "final" /\ probe.cfail = 0
  /\ probe.pre.enc = 0 /\ probe.pre.pad = 1
  /\ probe.pre.bufsz = AES_BLOCK_SIZE
  /\ cipher(probe.pre, probe.pre.buf)[AES_BLOCK_SIZE] \in 1..AES_BLOCK_SIZE
  /\ probe.res.ret = 0

\* C9 (SpecCall) Encrypt finalisation with padding disabled: aes_final
\* succeeds with zero output bytes and no transform call when nothing is
\* pending, fails without a transform call when 1..block size - 1 bytes are
\* pending, and transforms and emits exactly the pending block when block
\* size bytes are pending.
EncFinalNoPad ==
  (probe.op = "final" /\ probe.pre.enc = 1 /\ probe.pre.pad = 0) =>
    LET r == probe.res
    IN  IF probe.pre.bufsz = 0
        THEN r.ret = 1 /\ r.outl = 0 /\ r.out = <<>> /\ r.calls = <<>>
        ELSE IF probe.pre.bufsz < AES_BLOCK_SIZE
        THEN r.ret = 0 /\ r.out = <<>> /\ r.calls = <<>>
        ELSE /\ Len(r.calls) = 1
             /\ CallData(r.calls) = probe.pre.buf
             /\ probe.cfail = 0 =>
                  /\ r.ret = 1
                  /\ r.outl = AES_BLOCK_SIZE
                  /\ r.out = cipher(probe.pre, probe.pre.buf)

\* aes_final without padding rejected a partial block on an encrypting context
EncFinalPartial ==
  /\ probe.op = "final" /\ probe.pre.enc = 1 /\ probe.pre.pad = 0
  /\ probe.pre.bufsz \in 1..(AES_BLOCK_SIZE - 1)
  /\ probe.res.ret = 0

\* C10 (SpecReuse) Final resets the stream: after every successful aes_final the
\* pending count is 0, and from an init that follows it every call returns
\* and emits on the context what it returns and emits on a freshly created
\* context with the same key and padding flag.
FinalResets ==
  /\ reuse.armed => ctx.bufsz = 0
  /\ reuse.on => reuse.same

\* a reused context has ended a second stream, in step with a fresh one
FinalReused ==
  /\ reuse.on /\ reuse.same /\ reuse.armed
  /\ ctx.bufsz = 0 /\ reuse.ctx.bufsz = 0

\* C11 (SpecDup) Duplication yields an independent context: right after
\* aes_dupctx the copy is live and has the direction, padding flag, key
\* length, pending bytes and count, key schedule and IV of the original,
\* which is as it was; and every later init, aes_update, aes_final,
\* aes_set_params or free on one of the two contexts leaves the storage of
\* the other as it was before that call.
DupIndependent ==
  /\ pc = "op1" =>
       /\ dup.obj[dup.in] = [live |-> TRUE, c |-> ctx]
       /\ dup.obj[dup.ret] = [live |-> TRUE, c |-> ctx]
  /\ dup.who # NULL => dup.obj[OtherOf(dup.who)] = dup.other

\* after a call on each, the original holds a full block and the copy,
\* fed one more byte, holds that byte only
DupDiverged ==
  /\ pc = "end"
  /\ dup.who = dup.ret
  /\ dup.obj[dup.in].live /\ dup.obj[dup.ret].live
  /\ dup.obj[dup.in].c.bufsz = AES_BLOCK_SIZE
  /\ dup.obj[dup.ret].c.bufsz = 1

\* C12 (Spec) Direction is fixed within a stream: in every step of every
\* behaviour the direction flag enc changes value only from a state whose
\* pending buffer is empty.
DirectionFixed == [][ctx'.enc # ctx.enc => ctx.bufsz = 0]_vars

\* C13 (SpecKey) Key-setup failure makes the context unusable: an init given
\* a key fails exactly when the key-schedule primitive fails, an init given
\* no key succeeds and leaves the key schedule alone, and while the last
\* keyed init is one whose key setup failed every aes_update and aes_final
\* fails.
KeySetupFailure ==
  [][/\ \A enc \in 0..1, a \in InitArgs, ok \in BOOLEAN :
          KeyInit(enc, a[1], a[2], ok) =>
            /\ last'.ret = (IF a[1] # NULL /\ ~ok THEN 0 ELSE 1)
            /\ a[1] = NULL => ctx'.ks = ctx.ks
     /\ (pc = "bad" /\ last'.op \in {"update", "final"}) => last'.ret = 0]_vars

\* C14 (Spec) Padding parameter accessors: aes_set_params fails and leaves
\* the whole context unchanged when the padding parameter cannot be read as
\* an integer; succeeds and changes nothing when there is no padding
\* parameter; succeeds, stores 1 for a non-zero value and 0 for zero and
\* changes no other field when the value can be read, and a get on the
\* resulting context reports that normalised value.  aes_get_params never
\* changes the context and, when it can store the value, reports the current
\* flag; a get right after a successful set reports 0 or 1.
ParamAccessors ==
  [][/\ \A param \in PadParams :
          SetParams(param) =>
            LET norm == IF param.val # 0 THEN 1 ELSE 0
            IN  /\ param.kind = "unreadable" => last'.ret = 0 /\ ctx' = ctx
                /\ param.kind = "absent" => last'.ret = 1 /\ ctx' = ctx
                /\ param.kind = "int" =>
                     /\ last'.ret = 1
                     /\ ctx' = [ctx EXCEPT !.pad = norm]
                     /\ aes_get_params(ctx', "padding", TRUE).got = norm
     /\ \A param \in {"absent", "padding"}, setok \in BOOLEAN :
          GetParams(param, setok) =>
            /\ ctx' = ctx
            /\ (param = "padding" /\ setok) =>
                 /\ last'.ret = 1
                 /\ last'.got = ctx.pad
                 /\ (last.op = "set_params" /\ last.ret = 1) => last'.got \in {0, 1}]_vars

\* a get reports the flag 0 on a context with bytes pending: a set stored
\* it, as a new context has the flag 1
ParamGetAfterSet ==
  /\ last.op = "get_params"
  /\ last.ret = 1
  /\ last.got = 0
  /\ ctx.bufsz > 0

\* C15 (Spec) The padding flag cannot change stream behaviour mid-stream: an
\* aes_set_params made while a stream has bytes buffered by aes_update
\* leaves unchanged what the next aes_final, and the next aes_update given
\* no input, return and emit for those bytes.
PadToggleMidStream ==
  [][\A param \in PadParams :
       (strm.plain /\ ctx.bufsz > 0 /\ SetParams(param)) =>
         LET f0 == aes_final(ctx, 0)
             f1 == aes_final(ctx', 0)
             u0 == aes_update(ctx, <<>>, 0)
             u1 == aes_update(ctx', <<>>, 0)
         IN  /\ f1.ret = f0.ret /\ f1.out = f0.out /\ f1.outl = f0.outl
             /\ u1.ret = u0.ret /\ u1.out = u0.out /\ u1.outl = u0.outl]_vars

\* C16 (SpecCall) The transform only ever sees whole blocks: every cipher
\* invocation of an aes_update or aes_final call is given a byte count that
\* is a multiple of the block size and that many bytes; an invocation on the
\* pending buffer is given one block, which in aes_update is the first 16
\* of the pending bytes followed by the input, in aes_final the 16 pending
\* bytes or, when encrypting with padding, the pending bytes padded to 16;
\* and the bytes a successful aes_update emits are as many as it handed over.
WholeBlocks ==
  probe.op # "none" =>
    LET pre == probe.pre
        held == Take(pre.buf, pre.bufsz)
        calls == probe.res.calls
    IN  /\ \A i \in 1..Len(calls) :
             /\ calls[i].len % AES_BLOCK_SIZE = 0
             /\ Len(calls[i].data) = calls[i].len
             /\ calls[i].src = "buf" =>
                  /\ calls[i].len = AES_BLOCK_SIZE
                  /\ IF probe.op = "update"
                       THEN /\ pre.bufsz + Len(probe.in) >= AES_BLOCK_SIZE
                            /\ calls[i].data = Take(held \o probe.in, AES_BLOCK_SIZE)
                     ELSE IF pre.enc = 1 /\ pre.pad = 1
                       THEN Take(calls[i].data, pre.bufsz) = held
                     ELSE /\ pre.bufsz = AES_BLOCK_SIZE
                          /\ calls[i].data = held
             /\ calls[i].src = "in" =>
                  \E k \in 0..Len(probe.in) :
                    calls[i].data = SubSeq(probe.in, k + 1, k + calls[i].len)
        /\ (probe.op = "update" /\ probe.res.ret = 1) =>
             /\ Len(probe.res.out) = CallBytes(calls)
             /\ probe.res.outl % AES_BLOCK_SIZE = 0

\* an aes_update that hands the filled-up buffer and then whole blocks of
\* its input to the cipher, leaving a partial block pending
WholeBlocksTwoCalls ==
  /\ probe.op = "update"
  /\ probe.res.ret = 1
  /\ Len(probe.res.calls) = 2
  /\ probe.pre.bufsz \in 1..(AES_BLOCK_SIZE - 1)
  /\ probe.res.ctx.bufsz \in 1..(AES_BLOCK_SIZE - 1)

\* C17 (SpecCall) Padding is never omitted on encrypt: an aes_final on a
\* context with enc set and padding enabled hands the cipher one block made
\* of the pending bytes followed by p bytes of value p, where
\* p = block size - bufsz is in 1..block size.
EncFinalPads ==
  (probe.op = "final" /\ probe.pre.enc = 1 /\ probe.pre.pad = 1) =>
    LET pre == probe.pre
        p == AES_BLOCK_SIZE - pre.bufsz
    IN  /\ p \in 1..AES_BLOCK_SIZE
        /\ Len(probe.res.calls) = 1
        /\ probe.res.calls[1].data = Take(pre.buf, pre.bufsz) \o [i \in 1..p |-> p]

\* C18 (SpecCall) aes_update cannot fail on its own bookkeeping: from every
\* pending count 0..block size, direction and padding flag and for every
\* input length, an aes_update whose cipher invocations all succeed passes
\* the assertion of the holdback branch, finds room in the buffer for the
\* trailing bytes and returns success with no input left over, leaving at
\* most one block pending.
UpdateNeverFails ==
  (probe.op = "update" /\ probe.cfail = 0) =>
    /\ probe.res.ret = 1
    /\ probe.res.rem = 0
    /\ probe.res.outl # NoOutl
    /\ probe.res.ctx.bufsz \in 0..AES_BLOCK_SIZE
    /\ probe.pre.bufsz + Len(probe.in) = probe.res.outl + probe.res.ctx.bufsz

\* a full held-back block and two more blocks of input: the buffer is
\* flushed, one input block is transformed and the last is held back
UpdateFullThenBlocks ==
  /\ probe.op = "update"
  /\ probe.cfail = 0
  /\ probe.pre.bufsz = AES_BLOCK_SIZE
  /\ Len(probe.in) = 2 * AES_BLOCK_SIZE
  /\ Len(probe.res.calls) = 2
  /\ probe.res.ctx.bufsz = AES_BLOCK_SIZE

\* C19 (SpecCall), as claimed: a failing aes_final has no effect: it has
\* emitted no output, left the pending count and the pending bytes as they
\* were, and the same aes_final call made again fails again.
FinalFailureNoEffect ==
  (probe.op = "final" /\ probe.res.ret = 0) =>
    LET pre == probe.pre
        post == probe.res.ctx
    IN  /\ probe.res.out = <<>>
        /\ post.bufsz = pre.bufsz
        /\ Take(post.buf, post.bufsz) = Take(pre.buf, pre.bufsz)
        /\ aes_final(post, probe.cfail).ret = 0

\* C19 (SpecCall), amended: a failing aes_final emits no output, stores no
\* output length and leaves the pending count as it was.  On a framing error
\* the whole context is as it was and the same call fails again; on a
\* failure of the transform when encrypting the pending bytes are as they
\* were; on a padding validation failure the buffer holds, instead of the
\* held-back block, that block decrypted in place.
FinalFailureEffect ==
  (probe.op = "final" /\ probe.res.ret = 0) =>
    LET pre == probe.pre
        post == probe.res.ctx
    IN  /\ probe.res.out = <<>>
        /\ probe.res.outl = NoOutl
        /\ post.bufsz = pre.bufsz
        /\ [post EXCEPT !.buf = pre.buf] = pre
        /\ IF probe.res.calls = <<>>
             THEN /\ post = pre
                  /\ aes_final(post, probe.cfail).ret = 0
           ELSE IF probe.cfail = 1
             THEN pre.enc = 1 =>
                    Take(post.buf, post.bufsz) = Take(pre.buf, pre.bufsz)
           ELSE /\ pre.enc = 0 /\ pre.pad = 1
                /\ pre.bufsz = AES_BLOCK_SIZE
                /\ post.buf = cipher(pre, pre.buf)

\* a decrypting aes_final that fails on the padding and leaves other bytes
\* pending than it found
FinalPaddingFailureInPlace ==
  /\ probe.op = "final"
  /\ probe.res.ret = 0
  /\ probe.cfail = 0
  /\ Len(probe.res.calls) = 1
  /\ probe.res.ctx.buf # probe.pre.buf
  /\ probe.pre.ks # 0

\* C20 (SpecChunk) Chunking independence: for a key, a direction, a padding
\* flag and an input, however the input is split into aes_update calls
\* (zero-length calls included), the outputs of the aes_update calls
\* followed by that of aes_final, and the success or failure of aes_final,
\* are those of the stream that is given the whole input in one aes_update.
ChunkingIndependence ==
  pc = "done" =>
    LET one == OneShot(StreamStart(ctx.enc, ctx.pad, rt.key),
                       Take(Tape[tape], rt.fed))
    IN  /\ rt.ct = one.out
        /\ rt.ok = one.ok

\* a padded block decrypted from two or more non-empty chunks: aes_final
\* succeeds and 11 bytes of plaintext have come out
ChunkedDecrypt ==
  /\ pc = "done"
  /\ rt.ok
  /\ rt.used = 2
  /\ ctx.enc = 0
  /\ ctx.pad = 1
  /\ rt.fed = AES_BLOCK_SIZE
  /\ Len(rt.ct) = AES_BLOCK_SIZE - 5

====
